---------------------------- MODULE Spec2Model ----------------------------
(***************************************************************************)
(* Stream relay of epgBuilder.                                             *)
(*                                                                         *)
(* Two variants of streamTS live in the repository:                        *)
(*   - src/app/server.js   : headers and PAT/PMT sent first, then the      *)
(*                           upstream fetch (fetchStream), no redirect     *)
(*                           bound, no backpressure handling;              *)
(*   - src/entrypoint.sh   : (the file holds an earlier server.js) headers *)
(*                           after the upstream's 200, MAX_REDIRECTS,      *)
(*                           pause/drain, request timeout.                 *)
(* Spec        is one GET /stream session of src/app/server.js.            *)
(* SpecRealign is the realignment loop of src/app/server.js on any body.   *)
(* SpecProxy   is one GET /stream session of src/entrypoint.sh.            *)
(* SpecStore   is loadSchedule of src/app/server.js and its cache.         *)
(* SpecResolve is the /stream and /epg.xml handlers of src/app/server.js   *)
(*             on a loaded schedule.                                       *)
(* Bytes are integers 0..255, a Buffer is a sequence of bytes.             *)
(***************************************************************************)
EXTENDS Integers, Sequences, FiniteSets, TLC

VARIABLES
    conns,          \* one entry per upstream request issued, in order:
                    \* "pending" | "streaming" | "rejected" | "redirected" | "ended" |
                    \* "errored" | "failed" | "destroyed" | "aborting" (destroyed
                    \* before its response, 'error' due) | "abortingRes" (destroyed
                    \* after its response, the response's 'error' due)
    body,           \* the bytes the upstream serves on its success response
    pos,            \* how many bytes of body have been delivered in 'data' events
    buffer,         \* streamTS: let buffer
    bytesSent,      \* streamTS: let bytesSent
    packetCount,    \* streamTS (entrypoint.sh): let packetCount
    syncLost,       \* streamTS (entrypoint.sh): let syncLost
    headersSent,    \* res.headersSent
    statusCode,     \* status of the first res.writeHead (0: none yet)
    clientBody,     \* the body bytes handed to the client response, in order
    packets,        \* the packets the realignment loop passed to res.write
    resEnded,       \* res.end() has been called
    clientClosed,   \* the client connection has closed
    closeTargets,   \* requests whose destroy is registered on the client's close
    needDrain,      \* res.write has returned false and 'drain' has not fired since
    paused,         \* proxyRes.pause() in force (entrypoint.sh)
    drainPending,   \* a res.once('drain') listener is registered (entrypoint.sh)
    pauseCount,     \* data events in which proxyRes.pause() was called (entrypoint.sh)
    started,        \* streamTS has been called
    headLog,        \* the status of every res.writeHead call made, in order
    scheduleCache,  \* let scheduleCache
    lastScheduleLoad, \* let lastScheduleLoad
    clock,          \* Date.now()
    file,           \* what fs.readFile(SCHEDULE_PATH) yields at this moment
    loads,          \* the loadSchedule calls suspended at await fs.readFile
    reads,          \* how many times fs.readFile has been called
    io,             \* the reads of the suspended calls, in the order of loads: which
                    \* read of the file each one was (0: not yet done) and what it
                    \* yielded; how many reads were done; which one is cached
    ret,            \* what the loadSchedule call that returned last has returned
    resp            \* what the request handler that ran last has answered

vars == <<conns, body, pos, buffer, bytesSent, packetCount, syncLost, headersSent,
          statusCode, clientBody, packets, resEnded, clientClosed, closeTargets,
          needDrain, paused, drainPending, pauseCount, started, headLog,
          scheduleCache, lastScheduleLoad, clock, file, loads, reads, io, ret, resp>>

\* the state of the schedule store and of the request handlers
scheduleVars == <<scheduleCache, lastScheduleLoad, clock, file, loads, reads, io, ret, resp>>

---------------------------------------------------------------------------
(* Program constants *)

TS_PACKET_SIZE == 188

SYNC_BYTE == 71

MAX_REDIRECTS == 5

(* Bounds of the model *)

\* most complete packets in an upstream body
MaxPackets == 2

\* most leading garbage bytes drawn byte by byte
MaxGarbage == 2

\* most upstream requests one session of server.js may issue in the model
MaxRequests == 7

---------------------------------------------------------------------------
(* Buffers *)

Fill(n, b) == [i \in 1..n |-> b]

\* Buffer.slice(from) with a 0-based offset
SliceFrom(buf, from) == SubSeq(buf, from + 1, Len(buf))

\* Buffer.slice(0, to)
SliceTo(buf, to) == SubSeq(buf, 1, to)

\* Buffer.indexOf(b) mutated into lastIndexOf
LastIndexOf(buf, b) ==
    LET S == {i \in 1..Len(buf) : buf[i] = b}
    IN  IF S = {} THEN -1 ELSE (CHOOSE i \in S : \A j \in S : j <= i) - 1

\* Buffer.indexOf(b): 0-based offset of the first b, -1 when there is none
IndexOf(buf, b) ==
    LET S == {i \in 1..Len(buf) : buf[i] = b}
    IN  IF S = {} THEN -1 ELSE (CHOOSE i \in S : \A j \in S : i <= j) - 1

RECURSIVE Flatten(_)
Flatten(ps) == IF ps = <<>> THEN <<>> ELSE Head(ps) \o Flatten(Tail(ps))

\* the two packets streamTS builds before the fetch: PAT (PID 0x0000), PMT (PID 0x1000)
initialPackets ==
    [i \in 1..(TS_PACKET_SIZE * 2) |->
        CASE i = 1   -> SYNC_BYTE
          [] i = 2   -> 64
          [] i = 4   -> 16
          [] i = 189 -> SYNC_BYTE
          [] i = 190 -> 80
          [] i = 192 -> 16
          [] OTHER   -> 0]

\* 'Bad Gateway'
TextBadGateway == <<66, 97, 100, 32, 71, 97, 116, 101, 119, 97, 121>>

\* 'Connection error'
TextConnectionError ==
    <<67, 111, 110, 110, 101, 99, 116, 105, 111, 110, 32, 101, 114, 114, 111, 114>>

---------------------------------------------------------------------------
(* The realignment loop of src/app/server.js, lines 104-119, on one buffer.  *)
(* Result: the buffer left and the packets passed to res.write, in order.    *)

\* mutant: the bytes before the sync byte are not cut off
RECURSIVE RealignLoopNoSlice(_, _)
RealignLoopNoSlice(buf, out) ==
    IF Len(buf) < TS_PACKET_SIZE THEN [buffer |-> buf, packets |-> out]
    ELSE LET syncIdx == IndexOf(buf, SYNC_BYTE) IN
         IF syncIdx = -1 THEN [buffer |-> <<>>, packets |-> out]
         ELSE RealignLoopNoSlice(SliceFrom(buf, TS_PACKET_SIZE),
                                 Append(out, SliceTo(buf, TS_PACKET_SIZE)))

\* mutant: a single byte before the sync byte is not cut off
RECURSIVE RealignLoopLateCut(_, _)
RealignLoopLateCut(buf, out) ==
    IF Len(buf) < TS_PACKET_SIZE THEN [buffer |-> buf, packets |-> out]
    ELSE LET syncIdx == IndexOf(buf, SYNC_BYTE) IN
         IF syncIdx = -1 THEN [buffer |-> <<>>, packets |-> out]
         ELSE LET b1 == IF syncIdx > 1 THEN SliceFrom(buf, syncIdx) ELSE buf IN
              IF Len(b1) < TS_PACKET_SIZE THEN [buffer |-> b1, packets |-> out]
              ELSE RealignLoopLateCut(SliceFrom(b1, TS_PACKET_SIZE),
                                      Append(out, SliceTo(b1, TS_PACKET_SIZE)))

\* mutant: a packet extracted later in a data event is written first
RECURSIVE RealignLoopPrepend(_, _)
RealignLoopPrepend(buf, out) ==
    IF Len(buf) < TS_PACKET_SIZE THEN [buffer |-> buf, packets |-> out]
    ELSE LET syncIdx == IndexOf(buf, SYNC_BYTE) IN
         IF syncIdx = -1 THEN [buffer |-> <<>>, packets |-> out]
         ELSE LET b1 == IF syncIdx > 0 THEN SliceFrom(buf, syncIdx) ELSE buf IN
              IF Len(b1) < TS_PACKET_SIZE THEN [buffer |-> b1, packets |-> out]
              ELSE RealignLoopPrepend(SliceFrom(b1, TS_PACKET_SIZE),
                                      <<SliceTo(b1, TS_PACKET_SIZE)>> \o out)

\* mutant: a buffer without sync byte is discarded whatever its length
RECURSIVE RealignLoopEagerDiscard(_, _)
RealignLoopEagerDiscard(buf, out) ==
    LET syncIdx == IndexOf(buf, SYNC_BYTE) IN
    IF syncIdx = -1 THEN [buffer |-> <<>>, packets |-> out]
    ELSE IF Len(buf) < TS_PACKET_SIZE THEN [buffer |-> buf, packets |-> out]
    ELSE LET b1 == IF syncIdx > 0 THEN SliceFrom(buf, syncIdx) ELSE buf IN
         IF Len(b1) < TS_PACKET_SIZE THEN [buffer |-> b1, packets |-> out]
         ELSE RealignLoopEagerDiscard(SliceFrom(b1, TS_PACKET_SIZE),
                                      Append(out, SliceTo(b1, TS_PACKET_SIZE)))

\* mutant: at most one packet is extracted per data event
RealignLoopOnce(buf, out) ==
    IF Len(buf) < TS_PACKET_SIZE THEN [buffer |-> buf, packets |-> out]
    ELSE LET syncIdx == IndexOf(buf, SYNC_BYTE) IN
         IF syncIdx = -1 THEN [buffer |-> <<>>, packets |-> out]
         ELSE LET b1 == IF syncIdx > 0 THEN SliceFrom(buf, syncIdx) ELSE buf IN
              IF Len(b1) < TS_PACKET_SIZE THEN [buffer |-> b1, packets |-> out]
              ELSE [buffer |-> SliceFrom(b1, TS_PACKET_SIZE),
                    packets |-> Append(out, SliceTo(b1, TS_PACKET_SIZE))]

RECURSIVE RealignLoop(_, _)
RealignLoop(buf, out) ==
    IF Len(buf) < TS_PACKET_SIZE THEN [buffer |-> buf, packets |-> out]
    ELSE LET syncIdx == IndexOf(buf, SYNC_BYTE) IN
         IF syncIdx = -1 THEN [buffer |-> <<>>, packets |-> out]
         ELSE LET b1 == IF syncIdx > 0 THEN SliceFrom(buf, syncIdx) ELSE buf IN
              IF Len(b1) < TS_PACKET_SIZE THEN [buffer |-> b1, packets |-> out]
              ELSE RealignLoop(SliceFrom(b1, TS_PACKET_SIZE),
                               Append(out, SliceTo(b1, TS_PACKET_SIZE)))

---------------------------------------------------------------------------
(* Upstream inputs *)

\* garbage bytes: one that is not the sync byte, and the sync byte itself
GarbageBytes == {0, SYNC_BYTE}

\* an aligned packet: the sync byte and 187 payload bytes of value p
Packet(p) == <<SYNC_BYTE>> \o Fill(TS_PACKET_SIZE - 1, p)

\* n aligned packets; the payload bytes of packet i are its number i, or,
\* when syncPayload, the sync byte itself
RECURSIVE AlignedBody(_, _)
AlignedBody(n, syncPayload) ==
    IF n = 0 THEN <<>>
    ELSE AlignedBody(n - 1, syncPayload) \o Packet(IF syncPayload THEN SYNC_BYTE ELSE n)

AlignedSet == {AlignedBody(n, sp) : n \in 0..MaxPackets, sp \in BOOLEAN}

\* garbage drawn byte by byte (sync bytes allowed), or one long run without sync
RECURSIVE ShortGarbage(_)
ShortGarbage(k) ==
    IF k = 0 THEN {<<>>}
    ELSE {g \o <<b>> : g \in ShortGarbage(k - 1), b \in GarbageBytes}

GarbageSet ==
    UNION {ShortGarbage(k) : k \in 0..MaxGarbage} \cup {Fill(TS_PACKET_SIZE, 0)}

\* an unfinished packet at the end of the body
TailSet == {<<>>, <<SYNC_BYTE, 9>>}

\* the bodies fed to the realignment loop
Bodies == {g \o a \o t : g \in GarbageSet, a \in AlignedSet, t \in TailSet}

\* the bodies a whole session is run on: aligned packets, and one misaligned body
SessionBodies ==
    {AlignedBody(n, FALSE) : n \in 0..MaxPackets} \cup {<<0>> \o AlignedBody(1, FALSE)}

\* sizes of the chunks the upstream socket delivers
ChunkSizes == {1, TS_PACKET_SIZE - 1, TS_PACKET_SIZE, TS_PACKET_SIZE + 1}

\* status codes the upstream answers with
Statuses == {200, 206, 302, 404, 500}

IsRedirect(status, hasLocation) == status >= 300 /\ status < 400 /\ hasLocation

IsSuccess(status) == status = 200 \/ status = 206

---------------------------------------------------------------------------
(* The client response *)

\* res.write / res.end(data): bytes reach the client while the response is open
Delivered(bytes) == IF resEnded \/ clientClosed THEN clientBody ELSE clientBody \o bytes

\* the request in flight is the last one issued
cur == Len(conns)

\* res.writeHead called with no guard on a response whose headers are out
WriteHeadUnguarded(status) == Append(headLog, status)

\* if (!res.headersSent) res.writeHead(status, ...)
WriteHead(status) == IF headersSent THEN headLog ELSE Append(headLog, status)

\* a body of whole packets, each beginning with the sync byte
IsAligned(b) ==
    /\ Len(b) % TS_PACKET_SIZE = 0
    /\ \A k \in 0..(Len(b) \div TS_PACKET_SIZE - 1) : b[k * TS_PACKET_SIZE + 1] = SYNC_BYTE

\* the packets of an aligned body
PacketsOf(b) ==
    [i \in 1..(Len(b) \div TS_PACKET_SIZE) |->
        SubSeq(b, (i - 1) * TS_PACKET_SIZE + 1, i * TS_PACKET_SIZE)]

NoSync(b) == \A i \in 1..Len(b) : b[i] # SYNC_BYTE

\* the schedule store before any load, and no request handled
ScheduleIdle ==
    /\ scheduleCache = [type |-> "null", channels |-> <<>>]
    /\ lastScheduleLoad = 0
    /\ clock = 0
    /\ file = [kind |-> "ENOENT", value |-> [type |-> "null", channels |-> <<>>]]
    /\ loads = <<>>
    /\ reads = 0
    /\ io = [pending |-> <<>>, seq |-> 0, cached |-> 0]
    /\ ret = [n |-> 0, value |-> [type |-> "null", channels |-> <<>>],
              fromCache |-> FALSE, at |-> 0]
    /\ resp = [kind |-> "none"]

Init ==
    /\ conns = <<>>
    /\ body = <<>>
    /\ pos = 0
    /\ buffer = <<>>
    /\ bytesSent = 0
    /\ packetCount = 0
    /\ syncLost = FALSE
    /\ headersSent = FALSE
    /\ statusCode = 0
    /\ clientBody = <<>>
    /\ packets = <<>>
    /\ resEnded = FALSE
    /\ clientClosed = FALSE
    /\ closeTargets = {}
    /\ needDrain = FALSE
    /\ paused = FALSE
    /\ drainPending = FALSE
    /\ pauseCount = 0
    /\ started = FALSE
    /\ headLog = <<>>
    /\ ScheduleIdle

proxyVars == <<packetCount, syncLost, paused, drainPending, pauseCount>>

---------------------------------------------------------------------------
(* One GET /stream session of src/app/server.js *)

\* streamTS up to its call of fetchStream: the headers and the PAT/PMT packets
\* go out first, then the first upstream request is issued
StreamTS ==
    /\ ~started
    /\ started' = TRUE
    /\ headersSent' = TRUE
    /\ statusCode' = IF headersSent THEN statusCode ELSE 200
    /\ clientBody' = Delivered(initialPackets)
    /\ bytesSent' = bytesSent + Len(initialPackets)
    /\ conns' = Append(conns, "pending")
    /\ UNCHANGED <<body, pos, buffer, packets, resEnded, clientClosed, closeTargets,
                   needDrain>>
    /\ UNCHANGED proxyVars
    /\ headLog' = Append(headLog, 200)
    /\ UNCHANGED scheduleVars

\* response callback, redirect branch: upstream.destroy(); fetchStream(redirectUrl)
ResponseRedirect ==
    /\ started /\ cur >= 1 /\ conns[cur] = "pending"
    /\ cur < MaxRequests
    /\ \E status \in Statuses, hasLocation \in BOOLEAN :
          IsRedirect(status, hasLocation)
    /\ conns' = Append([conns EXCEPT ![cur] = "destroyed"], "pending")
    /\ UNCHANGED <<body, pos, buffer, bytesSent, headersSent, statusCode, clientBody,
                   packets, resEnded, clientClosed, closeTargets, needDrain, started>>
    /\ UNCHANGED proxyVars
    /\ UNCHANGED headLog
    /\ UNCHANGED scheduleVars

\* response callback, status neither redirect nor 200/206
ResponseRejected ==
    /\ started /\ cur >= 1 /\ conns[cur] = "pending"
    /\ \E status \in Statuses, hasLocation \in BOOLEAN :
          ~IsRedirect(status, hasLocation) /\ ~IsSuccess(status)
    /\ conns' = [conns EXCEPT ![cur] = "rejected"]
    /\ statusCode' = IF headersSent THEN statusCode ELSE 502
    /\ headersSent' = TRUE
    /\ clientBody' = Delivered(TextBadGateway)
    /\ resEnded' = TRUE
    /\ UNCHANGED <<body, pos, buffer, bytesSent, packets, clientClosed, closeTargets,
                   needDrain, started>>
    /\ UNCHANGED proxyVars
    /\ headLog' = WriteHead(502)
    /\ UNCHANGED scheduleVars

\* response callback, status 200 or 206: the data, end, error listeners are
\* attached and upstream.destroy is registered on the client's close
ResponseSuccess ==
    /\ started /\ cur >= 1 /\ conns[cur] = "pending"
    /\ \E status \in Statuses : IsSuccess(status)
    /\ \E b \in SessionBodies : body' = b
    /\ conns' = [conns EXCEPT ![cur] = "streaming"]
    /\ closeTargets' = closeTargets \cup {cur}
    /\ UNCHANGED <<pos, buffer, bytesSent, headersSent, statusCode, clientBody, packets,
                   resEnded, clientClosed, needDrain, started>>
    /\ UNCHANGED proxyVars
    /\ UNCHANGED headLog
    /\ UNCHANGED scheduleVars

\* upstream.on('data'): append the chunk, run the realignment loop, write
\* every packet it cuts; the return value of res.write is not looked at
UpstreamData ==
    /\ cur >= 1 /\ conns[cur] = "streaming"
    /\ pos < Len(body)
    /\ \E n \in ChunkSizes :
          /\ pos + n <= Len(body)
          /\ LET chunk == SubSeq(body, pos + 1, pos + n)
                 r == RealignLoop(buffer \o chunk, <<>>)
             IN  /\ buffer' = r.buffer
                 /\ packets' = packets \o r.packets
                 /\ clientBody' = Delivered(Flatten(r.packets))
                 /\ bytesSent' = bytesSent + TS_PACKET_SIZE * Len(r.packets)
                 /\ \E ok \in (IF r.packets = <<>> THEN {TRUE} ELSE BOOLEAN) :
                       needDrain' = (needDrain \/ ~ok)
          /\ pos' = pos + n
    /\ UNCHANGED <<conns, body, headersSent, statusCode, resEnded, clientClosed,
                   closeTargets, started>>
    /\ UNCHANGED proxyVars
    /\ UNCHANGED headLog
    /\ UNCHANGED scheduleVars

\* upstream.on('end'): res.end()
UpstreamEnd ==
    /\ cur >= 1 /\ conns[cur] = "streaming"
    /\ pos = Len(body)
    /\ conns' = [conns EXCEPT ![cur] = "ended"]
    /\ resEnded' = TRUE
    /\ UNCHANGED <<body, pos, buffer, bytesSent, headersSent, statusCode, clientBody,
                   packets, clientClosed, closeTargets, needDrain, started>>
    /\ UNCHANGED proxyVars
    /\ UNCHANGED headLog
    /\ UNCHANGED scheduleVars

\* upstream.on('error'): res.end()
UpstreamError ==
    /\ cur >= 1 /\ conns[cur] = "streaming"
    /\ conns' = [conns EXCEPT ![cur] = "errored"]
    /\ resEnded' = TRUE
    /\ UNCHANGED <<body, pos, buffer, bytesSent, headersSent, statusCode, clientBody,
                   packets, clientClosed, closeTargets, needDrain, started>>
    /\ UNCHANGED proxyVars
    /\ UNCHANGED headLog
    /\ UNCHANGED scheduleVars

\* request.on('error'): the connection to the upstream fails
RequestError ==
    /\ started /\ cur >= 1 /\ conns[cur] = "pending"
    /\ conns' = [conns EXCEPT ![cur] = "failed"]
    /\ statusCode' = IF headersSent THEN statusCode ELSE 502
    /\ headersSent' = TRUE
    /\ clientBody' = Delivered(TextConnectionError)
    /\ resEnded' = TRUE
    /\ UNCHANGED <<body, pos, buffer, bytesSent, packets, clientClosed, closeTargets,
                   needDrain, started>>
    /\ UNCHANGED proxyVars
    /\ headLog' = WriteHead(502)
    /\ UNCHANGED scheduleVars

\* the client connection closes: res emits 'close' once, and the listeners
\* registered by then run upstream.destroy()
ClientClose ==
    /\ ~clientClosed
    /\ clientClosed' = TRUE
    /\ conns' = [i \in DOMAIN conns |->
                    IF i \in closeTargets /\ conns[i] = "streaming"
                    THEN "destroyed" ELSE conns[i]]
    /\ UNCHANGED <<body, pos, buffer, bytesSent, headersSent, statusCode, clientBody,
                   packets, resEnded, closeTargets, needDrain, started>>
    /\ UNCHANGED proxyVars
    /\ UNCHANGED headLog
    /\ UNCHANGED scheduleVars

\* the client's socket has taken the buffered bytes: res emits 'drain', and the
\* listener res.once('drain') of entrypoint.sh, if registered, resumes the upstream
\* (server.js registers none)
ClientDrain ==
    /\ needDrain /\ ~clientClosed
    /\ needDrain' = FALSE
    /\ paused' = IF drainPending THEN FALSE ELSE paused
    /\ drainPending' = FALSE
    /\ UNCHANGED <<conns, body, pos, buffer, bytesSent, packetCount, syncLost,
                   headersSent, statusCode, clientBody, packets, resEnded, clientClosed,
                   closeTargets, pauseCount, started>>
    /\ UNCHANGED headLog
    /\ UNCHANGED scheduleVars

Next ==
    \/ StreamTS
    \/ ResponseRedirect
    \/ ResponseRejected
    \/ ResponseSuccess
    \/ UpstreamData
    \/ UpstreamEnd
    \/ UpstreamError
    \/ RequestError
    \/ ClientClose
    \/ ClientDrain

Spec == Init /\ [][Next]_vars

---------------------------------------------------------------------------
(* The session of src/app/server.js with an upstream that may stay silent,  *)
(* under fair scheduling.                                                   *)

\* the upstream has accepted the request and never answers it: protocol.get
\* is called without a timeout and no 'timeout' listener is registered, so no
\* event of the request fires any more
UpstreamSilent ==
    /\ started /\ cur >= 1 /\ conns[cur] = "pending"
    /\ conns' = [conns EXCEPT ![cur] = "silent"]
    /\ UNCHANGED <<body, pos, buffer, bytesSent, headersSent, statusCode, clientBody,
                   packets, resEnded, clientClosed, closeTargets, needDrain, started>>
    /\ UNCHANGED proxyVars
    /\ UNCHANGED headLog
    /\ UNCHANGED scheduleVars

NextLive ==
    \/ Next
    \/ UpstreamSilent

\* every event that has arrived is handled, an upstream that answers is heard,
\* and one that streams goes on to its end; whether the upstream fails or
\* stays silent, and whether the client leaves, is up to them
FairLive ==
    /\ WF_vars(StreamTS)
    /\ WF_vars(ResponseRedirect)
    /\ WF_vars(ResponseRejected)
    /\ WF_vars(ResponseSuccess)
    /\ WF_vars(UpstreamData)
    /\ WF_vars(UpstreamEnd)
    /\ WF_vars(ClientDrain)

SpecLive == Init /\ [][NextLive]_vars /\ FairLive

---------------------------------------------------------------------------
(* The realignment loop of src/app/server.js on its own: the session has   *)
(* sent its headers and PAT/PMT, the first upstream request was answered   *)
(* 200, and the upstream serves any body of Bodies in any chunking.        *)

InitRealign ==
    /\ conns = <<"streaming">>
    /\ body \in Bodies
    /\ pos = 0
    /\ buffer = <<>>
    /\ bytesSent = Len(initialPackets)
    /\ packetCount = 0
    /\ syncLost = FALSE
    /\ headersSent = TRUE
    /\ statusCode = 200
    /\ clientBody = initialPackets
    /\ packets = <<>>
    /\ resEnded = FALSE
    /\ clientClosed = FALSE
    /\ closeTargets = {1}
    /\ needDrain = FALSE
    /\ paused = FALSE
    /\ drainPending = FALSE
    /\ pauseCount = 0
    /\ started = TRUE
    /\ headLog = <<200>>
    /\ ScheduleIdle

NextRealign ==
    \/ UpstreamData
    \/ UpstreamEnd
    \/ ClientDrain

SpecRealign == InitRealign /\ [][NextRealign]_vars

---------------------------------------------------------------------------
(* One GET /stream session of src/entrypoint.sh (streamTS with a redirect   *)
(* count, headers after the upstream's 200, pause/drain, request timeout).  *)

\* 'Too many redirects'
TextTooManyRedirects ==
    <<84, 111, 111, 32, 109, 97, 110, 121, 32, 114, 101, 100, 105, 114, 101, 99, 116, 115>>

\* 'Bad Gateway - Upstream returned ' + proxyRes.statusCode
TextUpstreamReturned(status) ==
    <<66, 97, 100, 32, 71, 97, 116, 101, 119, 97, 121, 32, 45, 32, 85, 112, 115, 116,
      114, 101, 97, 109, 32, 114, 101, 116, 117, 114, 110, 101, 100, 32>>
    \o <<48 + (status \div 100), 48 + ((status \div 10) % 10), 48 + (status % 10)>>

\* 'Gateway timeout'
TextGatewayTimeout ==
    <<71, 97, 116, 101, 119, 97, 121, 32, 116, 105, 109, 101, 111, 117, 116>>

\* error.message of a failed or destroyed request: 'socket hang up'
ErrorMessage == <<115, 111, 99, 107, 101, 116, 32, 104, 97, 110, 103, 32, 117, 112>>

\* 'Connection error: ' + error.message
TextProxyConnectionError ==
    <<67, 111, 110, 110, 101, 99, 116, 105, 111, 110, 32, 101, 114, 114, 111, 114, 58, 32>>
    \o ErrorMessage

\* 'Stream error: ' + error.message
TextStreamError ==
    <<83, 116, 114, 101, 97, 109, 32, 101, 114, 114, 111, 114, 58, 32>> \o ErrorMessage

\* the while loop of the data handler: cut packets while the buffer starts
\* with the sync byte; a first byte that is not the sync byte sets syncLost
RECURSIVE ProxyLoop(_, _, _)
ProxyLoop(buf, sl, out) ==
    IF Len(buf) < TS_PACKET_SIZE THEN [buffer |-> buf, syncLost |-> sl, packets |-> out]
    ELSE IF buf[1] # SYNC_BYTE THEN [buffer |-> buf, syncLost |-> TRUE, packets |-> out]
    ELSE ProxyLoop(SliceFrom(buf, TS_PACKET_SIZE), sl,
                   Append(out, SliceTo(buf, TS_PACKET_SIZE)))

\* the data handler on the buffer with the chunk appended
ProxyOnData(buf, sl) ==
    LET sl1 == IF ~sl /\ Len(buf) >= TS_PACKET_SIZE /\ buf[1] # SYNC_BYTE THEN TRUE ELSE sl
    IN  IF sl1
        THEN LET syncIdx == IndexOf(buf, SYNC_BYTE) IN
             IF syncIdx = -1
             THEN [buffer |-> <<>>, syncLost |-> TRUE, packets |-> <<>>]
             ELSE ProxyLoop(IF syncIdx > 0 THEN SliceFrom(buf, syncIdx) ELSE buf,
                            FALSE, <<>>)
        ELSE ProxyLoop(buf, sl1, <<>>)

\* mutant: a packet whose write returns false is not handed to the response,
\* nor are the packets after it
WrittenUntilBackpressure(extracted, firstFalse) ==
    IF firstFalse = 0 THEN extracted ELSE SubSeq(extracted, 1, firstFalse - 1)

\* the packets handed to res.write in one data event, given the packets cut
\* and the first write that returned false (0: none): res.write is called for
\* every packet; a false return only pauses the upstream
Written(extracted, firstFalse) == extracted

\* streamTS(sourceUrl, ..., redirectCount): the bound check, then the request
ProxyFetch(redirectCount) ==
    IF redirectCount >= MAX_REDIRECTS
    THEN /\ statusCode' = IF headersSent THEN statusCode ELSE 502
         /\ headLog' = WriteHead(502)
         /\ headersSent' = TRUE
         /\ clientBody' = Delivered(TextTooManyRedirects)
         /\ resEnded' = TRUE
         /\ conns' = IF redirectCount = 0 THEN conns
                     ELSE [conns EXCEPT ![cur] = "redirected"]
    ELSE /\ conns' = IF redirectCount = 0 THEN Append(conns, "pending")
                     ELSE Append([conns EXCEPT ![cur] = "redirected"], "pending")
         /\ UNCHANGED <<statusCode, headLog, headersSent, clientBody, resEnded>>

\* the request handler's call streamTS(event.stream_url, res, channelId, name)
ProxyStreamTS ==
    /\ ~started
    /\ started' = TRUE
    /\ ProxyFetch(0)
    /\ UNCHANGED <<body, pos, buffer, bytesSent, packetCount, syncLost, packets,
                   clientClosed, closeTargets, needDrain, paused, drainPending, pauseCount>>
    /\ UNCHANGED scheduleVars

\* response callback, redirect branch: proxyRes.resume() lets the redirect's
\* body run out, then streamTS(newUrl, ..., redirectCount + 1)
ProxyRedirect ==
    /\ started /\ cur >= 1 /\ conns[cur] = "pending"
    /\ \E status \in Statuses, hasLocation \in BOOLEAN :
          IsRedirect(status, hasLocation)
    /\ ProxyFetch(cur)
    /\ UNCHANGED <<body, pos, buffer, bytesSent, packetCount, syncLost, packets,
                   clientClosed, closeTargets, needDrain, paused, drainPending, pauseCount, started>>
    /\ UNCHANGED scheduleVars

\* response callback, status other than 200 (and no redirect)
ProxyRejected ==
    /\ started /\ cur >= 1 /\ conns[cur] = "pending"
    /\ \E status \in Statuses, hasLocation \in BOOLEAN :
          /\ ~IsRedirect(status, hasLocation) /\ status # 200
          /\ clientBody' = Delivered(TextUpstreamReturned(status))
    /\ conns' = [conns EXCEPT ![cur] = "rejected"]
    /\ statusCode' = IF headersSent THEN statusCode ELSE 502
    /\ headersSent' = TRUE
    /\ resEnded' = TRUE
    /\ UNCHANGED <<body, pos, buffer, bytesSent, packetCount, syncLost, packets,
                   clientClosed, closeTargets, needDrain, paused, drainPending, pauseCount, started>>
    /\ headLog' = WriteHead(502)
    /\ UNCHANGED scheduleVars

\* response callback, status 200: headers once, the close and error listeners
\* of the client response, then the data, end and error listeners
ProxySuccess ==
    /\ started /\ cur >= 1 /\ conns[cur] = "pending"
    /\ \E b \in SessionBodies : body' = b
    /\ conns' = [conns EXCEPT ![cur] = "streaming"]
    /\ statusCode' = IF headersSent THEN statusCode ELSE 200
    /\ headersSent' = TRUE
    /\ closeTargets' = closeTargets \cup {cur}
    /\ UNCHANGED <<pos, buffer, bytesSent, packetCount, syncLost, clientBody, packets,
                   resEnded, clientClosed, needDrain, paused, drainPending, pauseCount, started>>
    /\ headLog' = WriteHead(200)
    /\ UNCHANGED scheduleVars

\* proxyRes.on('data'): realign, count and write each packet; a write that
\* returns false pauses the upstream and registers res.once('drain')
ProxyData ==
    /\ cur >= 1 /\ conns[cur] = "streaming"
    /\ ~paused
    /\ pos < Len(body)
    /\ \E n \in ChunkSizes :
          /\ pos + n <= Len(body)
          /\ LET chunk == SubSeq(body, pos + 1, pos + n)
                 r == ProxyOnData(buffer \o chunk, syncLost)
                 k == Len(r.packets)
             IN  \E firstFalse \in 0..k :
                    /\ (needDrain /\ k > 0) => firstFalse = 1
                    /\ buffer' = r.buffer
                    /\ syncLost' = r.syncLost
                    /\ packetCount' = packetCount + k
                    /\ bytesSent' = bytesSent + TS_PACKET_SIZE * k
                    /\ packets' = packets \o r.packets
                    /\ clientBody' = Delivered(Flatten(Written(r.packets, firstFalse)))
                    /\ needDrain' = (needDrain \/ firstFalse > 0)
                    /\ paused' = (paused \/ firstFalse > 0)
                    /\ drainPending' = (drainPending \/ firstFalse > 0)
                    /\ pauseCount' = IF firstFalse > 0 THEN pauseCount + 1 ELSE pauseCount
          /\ pos' = pos + n
    /\ UNCHANGED <<conns, body, headersSent, statusCode, resEnded, clientClosed,
                   closeTargets, started>>
    /\ UNCHANGED headLog
    /\ UNCHANGED scheduleVars

\* proxyRes.on('end'): the client listeners are removed, res.end()
ProxyEnd ==
    /\ cur >= 1 /\ conns[cur] = "streaming"
    /\ ~paused
    /\ pos = Len(body)
    /\ conns' = [conns EXCEPT ![cur] = "ended"]
    /\ closeTargets' = closeTargets \ {cur}
    /\ resEnded' = TRUE
    /\ UNCHANGED <<body, pos, buffer, bytesSent, packetCount, syncLost, headersSent,
                   statusCode, clientBody, packets, clientClosed, needDrain, paused,
                   drainPending, pauseCount, started>>
    /\ UNCHANGED headLog
    /\ UNCHANGED scheduleVars

\* proxyRes.on('error'): the client listeners are removed, 500 if no headers
\* were sent, res.end('Stream error: ...')
ProxyResError ==
    /\ cur >= 1 /\ conns[cur] \in {"streaming", "abortingRes"}
    /\ conns' = [conns EXCEPT ![cur] = "errored"]
    /\ closeTargets' = closeTargets \ {cur}
    /\ statusCode' = IF headersSent THEN statusCode ELSE 500
    /\ headersSent' = TRUE
    /\ clientBody' = Delivered(TextStreamError)
    /\ resEnded' = TRUE
    /\ UNCHANGED <<body, pos, buffer, bytesSent, packetCount, syncLost, packets,
                   clientClosed, needDrain, paused, drainPending, pauseCount, started>>
    /\ headLog' = WriteHead(500)
    /\ UNCHANGED scheduleVars

\* proxyReq.on('error'): the connection to the upstream fails, or the request
\* was destroyed by the timeout handler before its response ('socket hang up')
ProxyReqError ==
    /\ started /\ cur >= 1 /\ conns[cur] \in {"pending", "aborting"}
    /\ conns' = [conns EXCEPT ![cur] = "failed"]
    /\ statusCode' = IF headersSent THEN statusCode ELSE 502
    /\ headersSent' = TRUE
    /\ clientBody' = Delivered(TextProxyConnectionError)
    /\ resEnded' = TRUE
    /\ UNCHANGED <<body, pos, buffer, bytesSent, packetCount, syncLost, packets,
                   clientClosed, closeTargets, needDrain, paused, drainPending, pauseCount, started>>
    /\ headLog' = WriteHead(502)
    /\ UNCHANGED scheduleVars

\* a timeout handler that destroys the request and leaves the answer to the
\* error handler of the request
ProxyTimeoutDestroyOnly ==
    /\ started /\ cur >= 1 /\ conns[cur] \in {"pending", "streaming"}
    /\ conns' = [conns EXCEPT ![cur] =
                    IF conns[cur] = "pending" THEN "aborting" ELSE "abortingRes"]
    /\ UNCHANGED <<statusCode, headersSent, clientBody, resEnded>>
    /\ UNCHANGED <<body, pos, buffer, bytesSent, packetCount, syncLost, packets,
                   clientClosed, closeTargets, needDrain, paused, drainPending, pauseCount, started>>
    /\ UNCHANGED headLog
    /\ UNCHANGED scheduleVars

\* proxyReq.on('timeout'): the socket was idle for 30 s, while connecting or
\* while streaming; proxyReq.destroy(), 504 if no headers were sent, res.end.
\* The destroyed request emits 'error', or its response does if one had come.
ProxyTimeout ==
    /\ started /\ cur >= 1 /\ conns[cur] \in {"pending", "streaming"}
    /\ conns' = [conns EXCEPT ![cur] =
                    IF conns[cur] = "pending" THEN "aborting" ELSE "abortingRes"]
    /\ statusCode' = IF headersSent THEN statusCode ELSE 504
    /\ headersSent' = TRUE
    /\ clientBody' = Delivered(TextGatewayTimeout)
    /\ resEnded' = TRUE
    /\ UNCHANGED <<body, pos, buffer, bytesSent, packetCount, syncLost, packets,
                   clientClosed, closeTargets, needDrain, paused, drainPending, pauseCount, started>>
    /\ headLog' = WriteHead(504)
    /\ UNCHANGED scheduleVars

NextProxy ==
    \/ ProxyStreamTS
    \/ ProxyRedirect
    \/ ProxyRejected
    \/ ProxySuccess
    \/ ProxyData
    \/ ProxyEnd
    \/ ProxyResError
    \/ ProxyReqError
    \/ ProxyTimeout
    \/ ClientClose
    \/ ClientDrain

SpecProxy == Init /\ [][NextProxy]_vars

---------------------------------------------------------------------------
(* The schedule store of src/app/server.js: loadSchedule and its cache.    *)
(* A JSON value is a record with its type; a schedule document is an       *)
(* object, held as the sequence of its channels.                           *)

SCHEDULE_CACHE_TTL == 5000

\* how many TTL periods the clock runs through
MaxPeriods == 3

\* how many times loadSchedule is called
MaxCalls == 3

\* how many loadSchedule calls are suspended at a time
MaxPending == 2

\* the state of one relay session
relayVars == <<conns, body, pos, buffer, bytesSent, packetCount, syncLost, headersSent,
               statusCode, clientBody, packets, resEnded, clientClosed, closeTargets,
               needDrain, paused, drainPending, pauseCount, started, headLog>>

\* JSON.parse("null"), and the initial value of scheduleCache
JsonNull == [type |-> "null", channels |-> <<>>]

\* the literal {} of return scheduleCache || {}
EmptyDocument == [type |-> "object", channels |-> <<>>]

\* a document with one channel
OneChannelDocument ==
    [type |-> "object",
     channels |-> <<[id |-> <<"x">>, channel_name |-> <<"a">>, programs |-> <<>>]>>]

\* the values JSON.parse yields on the files of this model
JsonValues == {JsonNull, EmptyDocument, OneChannelDocument}

\* what reading the file yields: no file, text that is no JSON, or JSON text
FileContents ==
    {[kind |-> "ENOENT", value |-> JsonNull], [kind |-> "malformed", value |-> JsonNull]}
    \cup {[kind |-> "json", value |-> v] : v \in JsonValues}

\* the amounts by which the clock advances, in ms
TickSizes == {1, SCHEDULE_CACHE_TTL - 1}

\* a JSON value in a condition: null is falsy, an object is truthy
Truthy(v) == v.type # "null"

\* fs.readFile and JSON.parse both succeed
Readable(f) == f.kind = "json"

\* the test of loadSchedule with <= in the place of <
CacheFreshInclusive(now) ==
    Truthy(scheduleCache) /\ (now - lastScheduleLoad) <= SCHEDULE_CACHE_TTL

\* scheduleCache && (now - lastScheduleLoad) < SCHEDULE_CACHE_TTL
CacheFresh(now) ==
    Truthy(scheduleCache) /\ (now - lastScheduleLoad) < SCHEDULE_CACHE_TTL

\* a call of loadSchedule returns value
Return(value, fromCache, now) ==
    [n |-> ret.n + 1, value |-> value, fromCache |-> fromCache, at |-> now]

\* a suspended call whose read of the file has not been done yet
Unread == [seq |-> 0, data |-> [kind |-> "ENOENT", value |-> JsonNull]]

\* a sequence without its element k
RemoveAt(seq, k) == SubSeq(seq, 1, k - 1) \o SubSeq(seq, k + 1, Len(seq))

\* loadSchedule up to its await: const now = Date.now(); the cached document
\* is returned while fresh, else fs.readFile is called and the call suspends
LoadScheduleCall ==
    /\ ret.n + Len(loads) < MaxCalls
    /\ IF CacheFresh(clock)
       THEN /\ ret' = Return(scheduleCache, TRUE, clock)
            /\ UNCHANGED <<loads, reads, io>>
       ELSE /\ Len(loads) < MaxPending
            /\ loads' = Append(loads, clock)
            /\ reads' = reads + 1
            /\ io' = [io EXCEPT !.pending = Append(@, Unread)]
            /\ UNCHANGED ret
    /\ UNCHANGED <<scheduleCache, lastScheduleLoad, clock, file, resp>>
    /\ UNCHANGED relayVars

\* fs.readFile of any one suspended call reads the file, at some moment
\* before the call resumes: the reads of concurrent calls are done in any order
LoadScheduleRead ==
    /\ \E k \in 1..Len(io.pending) :
          /\ io.pending[k].seq = 0
          /\ io' = [io EXCEPT !.pending[k] = [seq |-> io.seq + 1, data |-> file],
                              !.seq = @ + 1]
    /\ UNCHANGED <<scheduleCache, lastScheduleLoad, clock, file, loads, reads, ret, resp>>
    /\ UNCHANGED relayVars

\* loadSchedule after its await, for any one suspended call: its read is done
\* now unless it was done before; the text is parsed, cached and stamped with
\* the call's now; on a failed read or parse the catch block returns
\* scheduleCache || {}
LoadScheduleResume ==
    \E k \in 1..Len(loads) :
        /\ loads' = RemoveAt(loads, k)
        /\ LET early == io.pending[k].seq > 0
               data == IF early THEN io.pending[k].data ELSE file
               seq == IF early THEN io.pending[k].seq ELSE io.seq + 1
           IN  IF Readable(data)
               THEN /\ scheduleCache' = data.value
                    /\ lastScheduleLoad' = loads[k]
                    /\ ret' = Return(data.value, FALSE, loads[k])
                    /\ io' = [pending |-> RemoveAt(io.pending, k),
                              seq |-> IF early THEN io.seq ELSE seq,
                              cached |-> seq]
               ELSE /\ ret' = Return(IF Truthy(scheduleCache) THEN scheduleCache
                                     ELSE EmptyDocument, FALSE, loads[k])
                    /\ io' = [pending |-> RemoveAt(io.pending, k),
                              seq |-> IF early THEN io.seq ELSE seq,
                              cached |-> io.cached]
                    /\ UNCHANGED <<scheduleCache, lastScheduleLoad>>
        /\ UNCHANGED <<clock, file, reads, resp>>
        /\ UNCHANGED relayVars

\* time passes; the instants looked at are the multiples of the TTL and the
\* millisecond before each
Tick ==
    /\ \E d \in TickSizes :
          /\ clock + d <= MaxPeriods * SCHEDULE_CACHE_TTL
          /\ (clock + d) % SCHEDULE_CACHE_TTL \in {0, SCHEDULE_CACHE_TTL - 1}
          /\ clock' = clock + d
    /\ UNCHANGED <<scheduleCache, lastScheduleLoad, file, loads, reads, io, ret, resp>>
    /\ UNCHANGED relayVars

\* the schedule builder rewrites or removes the file
FileWrite ==
    /\ file' \in FileContents \ {file}
    /\ UNCHANGED <<scheduleCache, lastScheduleLoad, clock, loads, reads, io, ret, resp>>
    /\ UNCHANGED relayVars

NextStore ==
    \/ LoadScheduleCall
    \/ LoadScheduleResume
    \/ Tick
    \/ FileWrite

SpecStore == Init /\ [][NextStore]_vars

\* the store with the reads of concurrent calls done at any moment of the await
NextLoads ==
    \/ LoadScheduleCall
    \/ LoadScheduleRead
    \/ LoadScheduleResume
    \/ Tick
    \/ FileWrite

SpecLoads == Init /\ [][NextLoads]_vars

---------------------------------------------------------------------------
(* The event resolver of src/app/server.js.                                *)
(* Instants are milliseconds counted from a midnight UTC; a string is a    *)
(* sequence of characters; a schedule document is the sequence of its      *)
(* channels in the order Object.entries and service_channels yield them.   *)

\* the time value of new Date(undefined): Invalid Date
NaN == -1

MS_PER_HOUR == 3600000

MS_PER_DAY == 24 * MS_PER_HOUR

\* Date comparisons: false as soon as one side is Invalid Date
DateLt(a, b) == a # NaN /\ b # NaN /\ a < b

DateLe(a, b) == a # NaN /\ b # NaN /\ a <= b

\* setUTCDate(getUTCDate() - 1); setUTCHours(0, 0, 0, 0)
oneDayAgo(now) == now - (now % MS_PER_DAY) - MS_PER_DAY

\* seven days ahead, cut to the start of that day
sevenDaysAheadMidnight(now) == now - (now % MS_PER_DAY) + 7 * MS_PER_DAY

\* setUTCDate(getUTCDate() + 7); setUTCHours(23, 59, 59, 999)
sevenDaysAhead(now) == now - (now % MS_PER_DAY) + 7 * MS_PER_DAY + (MS_PER_DAY - 1)

\* the object literal of a placeholder: it has no stream_url
Placeholder(start, stop, name) ==
    [program_name |-> name, start_dt |-> start, stop_dt |-> stop,
     stream_url |-> "", is_placeholder |-> TRUE]

\* channel.programs || []
Programs(channel) == IF "programs" \in DOMAIN channel THEN channel.programs ELSE <<>>

\* the permutations of a list
Perms(list) ==
    {[i \in 1..Len(list) |-> list[f[i]]] :
        f \in {g \in [1..Len(list) -> 1..Len(list)] :
                  \A i, j \in 1..Len(list) : i # j => g[i] # g[j]}}

\* mutant: the programs are taken in their stored order
SortsUnsorted(programs) == {programs}

\* [...programs].sort((a, b) => new Date(a.start_dt) - new Date(b.start_dt)):
\* ascending by start and stable; the comparator yields NaN on an Invalid Date,
\* it is then no consistent comparator and the order is implementation-defined
Sorts(programs) ==
    IF \E i \in 1..Len(programs) : programs[i].start_dt = NaN
    THEN Perms(programs)
    ELSE {[i \in 1..Len(programs) |-> programs[f[i]]] :
            f \in {g \in [1..Len(programs) -> 1..Len(programs)] :
                     \A i, j \in 1..Len(programs) :
                        i < j => \/ programs[g[i]].start_dt < programs[g[j]].start_dt
                                 \/ /\ programs[g[i]].start_dt = programs[g[j]].start_dt
                                    /\ g[i] < g[j]}}

\* the loop of fillProgramGaps from index i on: each program, and a placeholder
\* after it when it stops before the next one starts
RECURSIVE FillFrom(_, _)
FillFrom(sorted, i) ==
    IF i > Len(sorted) THEN <<>>
    ELSE <<sorted[i]>>
         \o (IF i < Len(sorted) /\ DateLt(sorted[i].stop_dt, sorted[i + 1].start_dt)
             THEN <<Placeholder(sorted[i].stop_dt, sorted[i + 1].start_dt,
                                "No Programming")>>
             ELSE <<>>)
         \o FillFrom(sorted, i + 1)

\* fillProgramGaps from the sorted list on, with no placeholder in front
fillProgramGapsNoLead(sorted, now) ==
    IF Len(sorted) = 0
    THEN <<Placeholder(oneDayAgo(now), sevenDaysAhead(now), "No Events Scheduled")>>
    ELSE FillFrom(sorted, 1)
         \o (IF DateLt(sorted[Len(sorted)].stop_dt, sevenDaysAhead(now))
             THEN <<Placeholder(sorted[Len(sorted)].stop_dt, sevenDaysAhead(now),
                                "No Programming")>>
             ELSE <<>>)

\* mutant: the placeholder in front runs up to the start of the last program
fillProgramGapsLeadToLast(sorted, now) ==
    IF Len(sorted) = 0
    THEN <<Placeholder(oneDayAgo(now), sevenDaysAhead(now), "No Events Scheduled")>>
    ELSE (IF DateLt(oneDayAgo(now), sorted[Len(sorted)].start_dt)
          THEN <<Placeholder(oneDayAgo(now), sorted[Len(sorted)].start_dt,
                             "No Programming")>>
          ELSE <<>>)
         \o FillFrom(sorted, 1)
         \o (IF DateLt(sorted[Len(sorted)].stop_dt, sevenDaysAhead(now))
             THEN <<Placeholder(sorted[Len(sorted)].stop_dt, sevenDaysAhead(now),
                                "No Programming")>>
             ELSE <<>>)

\* fillProgramGaps, sorted being what the sort of the programs has produced
fillProgramGaps(sorted, now) ==
    IF Len(sorted) = 0
    THEN <<Placeholder(oneDayAgo(now), sevenDaysAhead(now), "No Events Scheduled")>>
    ELSE (IF DateLt(oneDayAgo(now), sorted[1].start_dt)
          THEN <<Placeholder(oneDayAgo(now), sorted[1].start_dt, "No Programming")>>
          ELSE <<>>)
         \o FillFrom(sorted, 1)
         \o (IF DateLt(sorted[Len(sorted)].stop_dt, sevenDaysAhead(now))
             THEN <<Placeholder(sorted[Len(sorted)].stop_dt, sevenDaysAhead(now),
                                "No Programming")>>
             ELSE <<>>)

\* decodeURIComponent on the strings of this model, whose only escape is %25:
\* "URIError" when a % is not followed by two hexadecimal digits
RECURSIVE decodeURIComponent(_)
decodeURIComponent(str) ==
    IF str = <<>> THEN <<>>
    ELSE IF Head(str) # "%"
         THEN LET rest == decodeURIComponent(Tail(str))
              IN  IF rest = <<"URIError">> THEN rest ELSE <<Head(str)>> \o rest
         ELSE IF Len(str) >= 3 /\ str[2] = "2" /\ str[3] = "5"
              THEN LET rest == decodeURIComponent(SubSeq(str, 4, Len(str)))
                   IN  IF rest = <<"URIError">> THEN rest ELSE <<"%">> \o rest
              ELSE <<"URIError">>

\* encodeURIComponent on the same strings: % becomes %25, letters and digits stay
RECURSIVE encodeURIComponent(_)
encodeURIComponent(str) ==
    IF str = <<>> THEN <<>>
    ELSE (IF Head(str) = "%" THEN <<"%", "2", "5">> ELSE <<Head(str)>>)
         \o encodeURIComponent(Tail(str))

\* the channel loop of findChannelAndEvent: the first channel, in document
\* order, whose channel_name is the decoded identifier or whose id is the
\* identifier as given; 0 for null
RECURSIVE FindChannel(_, _, _)
FindChannel(channels, channelId, i) ==
    IF i > Len(channels) THEN 0
    ELSE IF \/ channels[i].channel_name = decodeURIComponent(channelId)
            \/ channels[i].id = channelId
         THEN i
    ELSE FindChannel(channels, channelId, i + 1)

\* the event loop of findChannelAndEvent: the first program of the filled list
\* that has both times and holds start <= now < stop; <<>> for null
RECURSIVE FindEvent(_, _, _)
FindEvent(filled, now, i) ==
    IF i > Len(filled) THEN <<>>
    ELSE IF filled[i].start_dt = NaN \/ filled[i].stop_dt = NaN
         THEN FindEvent(filled, now, i + 1)
    ELSE IF DateLe(filled[i].start_dt, now) /\ DateLt(now, filled[i].stop_dt)
         THEN <<filled[i]>>
    ELSE FindEvent(filled, now, i + 1)

\* findChannelAndEvent(schedule, channelId) at the instant now
findChannelAndEvent(channels, channelId, now, sorted) ==
    LET c == FindChannel(channels, channelId, 1)
    IN  IF c = 0 THEN [channel |-> 0, event |-> <<>>]
        ELSE [channel |-> c, event |-> FindEvent(fillProgramGaps(sorted, now), now, 1)]

---------------------------------------------------------------------------
(* The request handlers of src/app/server.js on a loaded schedule *)

\* the fallback loop of the /stream handler over channel.programs || []: the
\* first program with a stream_url that is no placeholder, replaced by each
\* later such program whose stop is greater; <<>> for null
RECURSIVE MostRecentEvent(_, _, _)
MostRecentEvent(programs, i, best) ==
    IF i > Len(programs) THEN best
    ELSE IF programs[i].stream_url # "" /\ ~programs[i].is_placeholder
         THEN IF best = <<>>
              THEN MostRecentEvent(programs, i + 1, <<programs[i]>>)
              ELSE IF DateLt(best[1].stop_dt, programs[i].stop_dt)
                   THEN MostRecentEvent(programs, i + 1, <<programs[i]>>)
                   ELSE MostRecentEvent(programs, i + 1, best)
    ELSE MostRecentEvent(programs, i + 1, best)

\* a response written with res.writeHead(status) and res.end(text), no
\* upstream request made
Answer(status, text, found) ==
    [kind |-> "stream", threw |-> FALSE, status |-> status, text |-> text,
     ended |-> TRUE, channel |-> found.channel, event |-> found.event,
     source |-> "", streamTS |-> FALSE]

\* the handler has thrown: nothing is written to the response
Thrown(kind) ==
    [kind |-> kind, threw |-> TRUE, status |-> 0, text |-> "", ended |-> FALSE,
     channel |-> 0, event |-> <<>>, source |-> "", streamTS |-> FALSE]

\* the /stream handler from the result of findChannelAndEvent on, with the
\* test of the fallback's result left out
streamAnswerNoFallbackTest(channels, found, method) ==
    IF found.channel = 0 THEN Answer(404, "Channel not found", found)
    ELSE IF found.event = <<>> THEN Answer(404, "No active event", found)
    ELSE LET event == found.event[1]
             mostRecentEvent == MostRecentEvent(Programs(channels[found.channel]), 1, <<>>)
             needed == event.is_placeholder \/ event.stream_url = ""
             streamEvent == IF needed /\ mostRecentEvent # <<>>
                            THEN mostRecentEvent[1] ELSE event
         IN  IF method = "HEAD"
             THEN [Answer(200, "", found) EXCEPT !.source = streamEvent.stream_url]
             ELSE [kind |-> "stream", threw |-> FALSE, status |-> 0, text |-> "",
                   ended |-> FALSE, channel |-> found.channel,
                   event |-> found.event, source |-> streamEvent.stream_url,
                   streamTS |-> TRUE]

\* the /stream handler from the result of findChannelAndEvent on
streamAnswer(channels, found, method) ==
    IF found.channel = 0 THEN Answer(404, "Channel not found", found)
    ELSE IF found.event = <<>> THEN Answer(404, "No active event", found)
    ELSE LET event == found.event[1]
             mostRecentEvent == MostRecentEvent(Programs(channels[found.channel]), 1, <<>>)
             needed == event.is_placeholder \/ event.stream_url = ""
             streamEvent == IF needed /\ mostRecentEvent # <<>>
                            THEN mostRecentEvent[1] ELSE event
         IN  IF needed /\ mostRecentEvent = <<>>
             THEN Answer(503, "No stream available", found)
             ELSE IF method = "HEAD"
             THEN [Answer(200, "", found) EXCEPT !.source = streamEvent.stream_url]
             ELSE [kind |-> "stream", threw |-> FALSE, status |-> 0, text |-> "",
                   ended |-> FALSE, channel |-> found.channel,
                   event |-> found.event, source |-> streamEvent.stream_url,
                   streamTS |-> TRUE]

\* setUTCDate(getUTCDate() - 1); setUTCHours(0, 0, 0, 0)
hiddenEventStart(now) == now - (now % MS_PER_DAY) - MS_PER_DAY

\* setUTCMinutes(30) on a copy of hiddenEventStart
hiddenEventStop(now) == hiddenEventStart(now) + 30 * 60000

\* a <channel> element for every channel
RECURSIVE epgChannelsAll(_, _)
epgChannelsAll(channels, i) ==
    IF i > Len(channels) THEN <<>>
    ELSE <<channels[i].channel_name>> \o epgChannelsAll(channels, i + 1)

\* the <channel> elements of /epg.xml: one per channel whose programs list
\* is not empty, by channel_name
RECURSIVE epgChannels(_, _)
epgChannels(channels, i) ==
    IF i > Len(channels) THEN <<>>
    ELSE (IF Len(Programs(channels[i])) > 0 THEN <<channels[i].channel_name>> ELSE <<>>)
         \o epgChannels(channels, i + 1)

\* the <programme> elements of a channel's stored programs that are no
\* placeholders; start_str and stop_str stand for the same instants as
\* start_dt and stop_dt
RECURSIVE realProgrammes(_, _, _)
realProgrammes(name, programs, i) ==
    IF i > Len(programs) THEN <<>>
    ELSE (IF ~programs[i].is_placeholder
          THEN <<[channel |-> name, title |-> programs[i].program_name,
                  start |-> programs[i].start_dt, stop |-> programs[i].stop_dt]>>
          ELSE <<>>)
         \o realProgrammes(name, programs, i + 1)

\* the <programme> elements of /epg.xml: for every channel the hidden event,
\* then its real programs
RECURSIVE epgProgrammes(_, _, _)
epgProgrammes(channels, now, i) ==
    IF i > Len(channels) THEN <<>>
    ELSE <<[channel |-> channels[i].channel_name, title |-> "Hidden Event",
            start |-> hiddenEventStart(now), stop |-> hiddenEventStop(now)]>>
         \o realProgrammes(channels[i].channel_name, Programs(channels[i]), 1)
         \o epgProgrammes(channels, now, i + 1)

---------------------------------------------------------------------------
(* The requests and schedules the handlers are run on *)

\* the longest programs list of a channel
MaxPrograms == 2

\* the instants at which a request arrives: a midnight UTC, and an afternoon
Nows == {2 * MS_PER_DAY, 2 * MS_PER_DAY + 13 * MS_PER_HOUR}

\* program_name and stream_url of the program at each position of a list
ProgramNames == <<"p1", "p2", "p3", "p4">>

StreamUrls == <<"u1", "u2", "u3", "u4">>

\* start and stop of the programs of a list: absent, or around now
StartInstants(now) == {NaN, now - 2 * MS_PER_HOUR, now + MS_PER_HOUR}

StopInstants(now) == {NaN, now - MS_PER_HOUR, now + 2 * MS_PER_HOUR}

\* start and stop of a lone program: also at and beyond the window's ends
WideInstants(now) ==
    {NaN, oneDayAgo(now) - MS_PER_HOUR, oneDayAgo(now), now - MS_PER_HOUR, now,
     now + MS_PER_HOUR, sevenDaysAhead(now), sevenDaysAhead(now) + MS_PER_HOUR}

\* the programs at position i of a list; from the third on they have both times
ProgramsAt(i, now) ==
    {[program_name |-> ProgramNames[i], start_dt |-> s, stop_dt |-> t,
      stream_url |-> u, is_placeholder |-> FALSE] :
        s \in (IF i <= 2 THEN StartInstants(now) ELSE StartInstants(now) \ {NaN}),
        t \in (IF i <= 2 THEN StopInstants(now) ELSE StopInstants(now) \ {NaN}),
        u \in {"", StreamUrls[i]}}

\* the programs lists of n programs
RECURSIVE ProgramLists(_, _)
ProgramLists(n, now) ==
    IF n = 0 THEN {<<>>}
    ELSE {l \o <<p>> : l \in ProgramLists(n - 1, now), p \in ProgramsAt(n, now)}

\* the lists of one program, which the schedule may have flagged a placeholder
LonePrograms(now) ==
    {<<[program_name |-> ProgramNames[1], start_dt |-> s, stop_dt |-> t,
        stream_url |-> u, is_placeholder |-> ph]>> :
        s \in WideInstants(now), t \in WideInstants(now), u \in {"", StreamUrls[1]},
        ph \in BOOLEAN}

\* a program on air at now, with a stream_url
LiveProgram(now) ==
    [program_name |-> ProgramNames[1], start_dt |-> now - MS_PER_HOUR,
     stop_dt |-> now + MS_PER_HOUR, stream_url |-> StreamUrls[1],
     is_placeholder |-> FALSE]

\* channel_name and id of the channels; % is the character that is escaped
ChannelNames == {<<"a">>, <<"b">>, <<"%">>}

ChannelIds == {<<"a">>, <<"b">>}

\* documents of one channel, with every programs list, or with none
ResolveDocuments(now) ==
    {[type |-> "object",
      channels |-> <<[id |-> <<"x">>, channel_name |-> <<"a">>, programs |-> l]>>] :
        l \in LonePrograms(now)
              \cup UNION {ProgramLists(n, now) : n \in 0..MaxPrograms}}
    \cup {[type |-> "object", channels |-> <<[id |-> <<"x">>, channel_name |-> <<"a">>]>>]}

\* documents of two channels, each with one program on air
LookupDocuments(now) ==
    {[type |-> "object",
      channels |-> <<[id |-> i1, channel_name |-> n1, programs |-> <<LiveProgram(now)>>],
                     [id |-> i2, channel_name |-> n2, programs |-> <<LiveProgram(now)>>]>>] :
        i1 \in ChannelIds, i2 \in ChannelIds, n1 \in ChannelNames, n2 \in ChannelNames}

\* three programs that follow one another, the second one on air at now, each
\* with or without a stream_url
ScheduledDay(now) ==
    {<<[program_name |-> ProgramNames[1], start_dt |-> now - 2 * MS_PER_HOUR,
        stop_dt |-> now - MS_PER_HOUR, stream_url |-> u1, is_placeholder |-> FALSE],
       [program_name |-> ProgramNames[2], start_dt |-> now - MS_PER_HOUR,
        stop_dt |-> now + MS_PER_HOUR, stream_url |-> u2, is_placeholder |-> FALSE],
       [program_name |-> ProgramNames[3], start_dt |-> now + MS_PER_HOUR,
        stop_dt |-> now + 2 * MS_PER_HOUR, stream_url |-> u3, is_placeholder |-> FALSE]>> :
        u1 \in {"", StreamUrls[1]}, u2 \in {"", StreamUrls[2]}, u3 \in {"", StreamUrls[3]}}

\* documents of one channel whose programs are such a day, stored in any order
ShuffledDocuments(now) ==
    {[type |-> "object",
      channels |-> <<[id |-> <<"x">>, channel_name |-> <<"a">>, programs |-> l]>>] :
        l \in UNION {Perms(day) : day \in ScheduledDay(now)}}

Documents(now) ==
    ResolveDocuments(now) \cup LookupDocuments(now) \cup ShuffledDocuments(now)

\* the channel parts of the paths requested: /stream/<part>.ts
RawIds == {<<"a">>, <<"b">>, <<"x">>, <<"%">>, <<"%", "2", "5">>,
           <<"%", "2", "5", "2", "5">>}

Methods == {"GET", "HEAD"}

\* a schedule has been loaded at the instant the requests arrive
InitResolve ==
    /\ conns = <<>>
    /\ body = <<>>
    /\ pos = 0
    /\ buffer = <<>>
    /\ bytesSent = 0
    /\ packetCount = 0
    /\ syncLost = FALSE
    /\ headersSent = FALSE
    /\ statusCode = 0
    /\ clientBody = <<>>
    /\ packets = <<>>
    /\ resEnded = FALSE
    /\ clientClosed = FALSE
    /\ closeTargets = {}
    /\ needDrain = FALSE
    /\ paused = FALSE
    /\ drainPending = FALSE
    /\ pauseCount = 0
    /\ started = FALSE
    /\ headLog = <<>>
    /\ clock \in Nows
    /\ scheduleCache \in Documents(clock)
    /\ lastScheduleLoad = clock
    /\ file = [kind |-> "json", value |-> scheduleCache]
    /\ loads = <<>>
    /\ reads = 1
    /\ io = [pending |-> <<>>, seq |-> 0, cached |-> 0]
    /\ ret = [n |-> 1, value |-> scheduleCache, fromCache |-> FALSE, at |-> clock]
    /\ resp = [kind |-> "none"]

\* mutant: the sort orders channel.programs itself
StoredAfterSortInPlace(programs, sorted) == sorted

\* what channel.programs holds after [...programs].sort(...): the spread makes
\* a copy, and the sort orders the copy
StoredAfterSort(programs, sorted) == programs

\* the cached document after fillProgramGaps has run on the programs of
\* channel c; channel.programs || [] of a channel without programs is a new list
DocumentAfterSort(document, c, sorted) ==
    IF c = 0 THEN document
    ELSE IF "programs" \notin DOMAIN document.channels[c] THEN document
    ELSE [document EXCEPT !.channels[c].programs = StoredAfterSort(@, sorted)]

\* the entries of /playlist.m3u: for each channel whose programs list is not
\* empty, tvg-id is channel_name and the URL path is
\* /stream/<encodeURIComponent(channel_name)>.ts
RECURSIVE playlistEntries(_, _)
playlistEntries(channels, i) ==
    IF i > Len(channels) THEN <<>>
    ELSE (IF Len(Programs(channels[i])) > 0
          THEN <<[tvgId |-> channels[i].channel_name,
                  path |-> encodeURIComponent(channels[i].channel_name)]>>
          ELSE <<>>)
         \o playlistEntries(channels, i + 1)

\* GET or HEAD /stream/<raw>.ts: the path part is decoded, loadSchedule returns
\* the fresh cache, findChannelAndEvent decodes again and resolves, and the
\* handler answers or calls streamTS; a URIError leaves the handler by throwing
HandleStream ==
    /\ CacheFresh(clock)
    /\ \E raw \in RawIds, method \in Methods :
          LET channelId == decodeURIComponent(raw)
              channels == scheduleCache.channels
          IN  IF \/ channelId = <<"URIError">>
                 \/ decodeURIComponent(channelId) = <<"URIError">>
              THEN /\ resp' = [kind |-> "stream", raw |-> raw, method |-> method,
                               answer |-> Thrown("stream")]
                   /\ scheduleCache' = scheduleCache
              ELSE LET c == FindChannel(channels, channelId, 1)
                   IN  \E sorted \in (IF c = 0 THEN {<<>>}
                                      ELSE Sorts(Programs(channels[c]))) :
                          /\ resp' = [kind |-> "stream", raw |-> raw, method |-> method,
                                      answer |-> streamAnswer(channels,
                                          findChannelAndEvent(channels, channelId, clock,
                                                              sorted),
                                          method)]
                          /\ scheduleCache' = DocumentAfterSort(scheduleCache, c, sorted)
    /\ UNCHANGED <<lastScheduleLoad, clock, file, loads, reads, io, ret>>
    /\ UNCHANGED relayVars

\* GET /epg.xml: loadSchedule returns the fresh cache; 200 with the channel
\* and programme elements
HandleEpg ==
    /\ CacheFresh(clock)
    /\ resp' = [kind |-> "epg",
                status |-> 200,
                channels |-> epgChannels(scheduleCache.channels, 1),
                programmes |-> epgProgrammes(scheduleCache.channels, clock, 1)]
    /\ UNCHANGED <<scheduleCache, lastScheduleLoad, clock, file, loads, reads, io, ret>>
    /\ UNCHANGED relayVars

\* GET /playlist.m3u: loadSchedule returns the fresh cache; 200 with one
\* entry per channel that has programs
HandlePlaylist ==
    /\ CacheFresh(clock)
    /\ resp' = [kind |-> "playlist",
                status |-> 200,
                entries |-> playlistEntries(scheduleCache.channels, 1)]
    /\ UNCHANGED <<scheduleCache, lastScheduleLoad, clock, file, loads, reads, io, ret>>
    /\ UNCHANGED relayVars

\* GET /health: loadSchedule returns the fresh cache; 200 with the number of
\* channels of the document
HandleHealth ==
    /\ CacheFresh(clock)
    /\ resp' = [kind |-> "health",
                status |-> 200,
                total_channels |-> Len(scheduleCache.channels)]
    /\ UNCHANGED <<scheduleCache, lastScheduleLoad, clock, file, loads, reads, io, ret>>
    /\ UNCHANGED relayVars

NextResolve ==
    \/ HandleStream
    \/ HandleEpg
    \/ HandlePlaylist
    \/ HandleHealth

SpecResolve == InitResolve /\ [][NextResolve]_vars

---------------------------------------------------------------------------
(* Claims on the realignment loop (SpecRealign) *)

\* C1: every packet the realignment loop writes is 188 bytes long and begins
\* with the sync byte 0x47, for every body and every chunking.
C1_PacketsAligned ==
    \A i \in 1..Len(packets) :
        Len(packets[i]) = TS_PACKET_SIZE /\ packets[i][1] = SYNC_BYTE

\* C1 witness: packets were written from a body that starts out of sync
C1_Witness ==
    /\ Len(packets) >= 2
    /\ body[1] # SYNC_BYTE
    /\ conns[1] = "ended"

\* C2 as claimed: K >= 1 garbage bytes of any value before N aligned packets
\* give exactly those N packets once the upstream has ended.
C2_GarbageDropped ==
    conns[1] = "ended" =>
        \A k \in 1..TS_PACKET_SIZE :
            (k <= Len(body) /\ IsAligned(SliceFrom(body, k)))
                => packets = PacketsOf(SliceFrom(body, k))

\* C2 amended: K >= 1 garbage bytes, none of them the sync byte, before N
\* aligned packets give exactly those N packets once the upstream has ended.
C2_SyncFreeGarbageDropped ==
    conns[1] = "ended" =>
        \A k \in 1..TS_PACKET_SIZE :
            (k <= Len(body) /\ NoSync(SliceTo(body, k)) /\ IsAligned(SliceFrom(body, k)))
                => packets = PacketsOf(SliceFrom(body, k))

\* C2 witness: two garbage bytes, then two packets, all delivered and written
C2_Witness ==
    /\ conns[1] = "ended"
    /\ Len(body) = 2 * TS_PACKET_SIZE + 2
    /\ NoSync(SliceTo(body, 2))
    /\ IsAligned(SliceFrom(body, 2))
    /\ Len(packets) = 2

\* C3: an aligned body of N packets, in any chunking, comes out as exactly
\* its N packets in order: what was written, followed by the bytes still
\* buffered, is the input received so far, and less than a packet is buffered.
C3_AlignedIdentity ==
    IsAligned(body) =>
        /\ Flatten(packets) \o buffer = SliceTo(body, pos)
        /\ Len(buffer) < TS_PACKET_SIZE
        /\ (conns[1] = "ended" => packets = PacketsOf(body))

\* C3 witness: two aligned packets whose payload is full of sync bytes went through
C3_Witness ==
    /\ conns[1] = "ended"
    /\ IsAligned(body)
    /\ Len(body) = 2 * TS_PACKET_SIZE
    /\ body[2] = SYNC_BYTE
    /\ Len(packets) = 2

---------------------------------------------------------------------------
(* Claims on the session of src/app/server.js (Spec) *)

\* C4: with an upstream answering 200 and an aligned body, the client gets
\* status 200 and a body that is byte for byte the upstream's packets.
C4_BodyIsUpstream ==
    (cur >= 1 /\ conns[cur] = "ended" /\ IsAligned(body) /\ ~clientClosed)
        => (statusCode = 200 /\ clientBody = body)

\* C5: once the client connection has closed, no upstream request of the
\* session is still connecting or streaming.
C5_CloseDestroysUpstream ==
    clientClosed => \A i \in DOMAIN conns : conns[i] \notin {"pending", "streaming"}

\* C6: one client request issues at most 5 redirect hops' worth of upstream
\* requests: the first request and one per followed redirect.
C6_RedirectsBounded == Len(conns) <= MAX_REDIRECTS + 1

\* C7: when the upstream's final status is not 200/206 (and no redirect), or
\* the upstream connection fails, the status the client receives is 502.
C7_FailureGives502 ==
    (cur >= 1 /\ conns[cur] \in {"rejected", "failed"}) => statusCode = 502

\* C8: while the session is still connecting (no success response yet, redirects
\* included) neither headers nor body bytes have been sent to the client.
C8_NothingBeforeSuccess ==
    (cur >= 1 /\ conns[cur] = "pending") => (~headersSent /\ clientBody = <<>>)

\* C9: under any pattern of writes returning false and drain events, when the
\* upstream has ended every packet the realigner cut was written to the client
\* exactly once: the client's body is the cut packets in order, 188 bytes each.
C9_NoPacketDropped ==
    (cur >= 1 /\ conns[cur] = "ended" /\ ~clientClosed)
        => /\ clientBody = Flatten(packets)
           /\ Len(clientBody) = TS_PACKET_SIZE * packetCount
           /\ bytesSent = Len(clientBody)

\* C9 witness: the upstream ended after two packets, the upstream was paused on
\* the way and a drain resumed it
C9_Witness ==
    /\ cur >= 1 /\ conns[cur] = "ended"
    /\ ~clientClosed
    /\ packetCount = 2
    /\ pauseCount >= 1

\* C10: while a write has signalled backpressure and the client has not
\* drained, no further upstream chunk is consumed.
C10_BackpressurePauses == [][needDrain => pos' = pos]_vars

---------------------------------------------------------------------------
(* Claims on the event resolver and the /stream handler (SpecResolve) *)

\* C11: when the active event has no stream_url, the source URL the /stream
\* handler chooses is the stream_url of the program that is no placeholder,
\* has a stream_url and ended most recently: the greatest stop_dt not after
\* now, whatever past and future programs the channel has.
C11_FallbackMostRecentlyEnded ==
    (/\ resp.kind = "stream"
     /\ ~resp.answer.threw
     /\ resp.answer.event # <<>>) =>
        LET programs == Programs(scheduleCache.channels[resp.answer.channel])
            ended == {i \in 1..Len(programs) :
                        /\ programs[i].stream_url # ""
                        /\ ~programs[i].is_placeholder
                        /\ programs[i].stop_dt # NaN
                        /\ programs[i].stop_dt <= clock}
            latest == {i \in ended :
                         \A j \in ended : programs[j].stop_dt <= programs[i].stop_dt}
        IN  (resp.answer.event[1].stream_url = "" /\ ended # {}) =>
                resp.answer.source \in {programs[i].stream_url : i \in latest}

\* C12: for a found channel, whatever its programs are (any order, overlapping,
\* outside the window, lacking start_dt or stop_dt), the filled list covers
\* now: findChannelAndEvent returns an event that is not null.
C12_NowAlwaysCovered ==
    (/\ resp.kind = "stream"
     /\ ~resp.answer.threw
     /\ resp.answer.channel # 0) => resp.answer.event # <<>>

\* C13: for a channel with the single program [T1, T2), findChannelAndEvent
\* returns that program unchanged exactly when T1 <= now < T2, and otherwise
\* a placeholder whose [start_dt, stop_dt) contains now.
C13_SingleProgram ==
    (/\ resp.kind = "stream"
     /\ ~resp.answer.threw
     /\ resp.answer.channel # 0) =>
        LET programs == Programs(scheduleCache.channels[resp.answer.channel])
        IN  (/\ Len(programs) = 1
             /\ programs[1].start_dt # NaN
             /\ programs[1].stop_dt # NaN) =>
                IF programs[1].start_dt <= clock /\ clock < programs[1].stop_dt
                THEN resp.answer.event = <<programs[1]>>
                ELSE /\ resp.answer.event # <<>>
                     /\ resp.answer.event[1].is_placeholder
                     /\ resp.answer.event[1].program_name = "No Programming"
                     /\ resp.answer.event[1].start_dt <= clock
                     /\ clock < resp.answer.event[1].stop_dt

\* a lone program that starts after now has been resolved to a placeholder
C13_Witness ==
    /\ resp.kind = "stream"
    /\ ~resp.answer.threw
    /\ resp.answer.channel # 0
    /\ LET programs == Programs(scheduleCache.channels[resp.answer.channel])
       IN  /\ Len(programs) = 1
           /\ programs[1].start_dt # NaN
           /\ programs[1].stop_dt # NaN
           /\ clock < programs[1].start_dt
           /\ programs[1].start_dt < programs[1].stop_dt
    /\ resp.answer.event # <<>>
    /\ resp.answer.event[1].is_placeholder
    /\ resp.answer.event[1].stop_dt > clock

\* C14: for a channel with zero programs (empty or absent list)
\* fillProgramGaps returns exactly one placeholder, from 00:00 UTC of the
\* previous day to the end of the day seven days ahead, and
\* findChannelAndEvent returns it.
C14_EmptyChannel ==
    (/\ resp.kind = "stream"
     /\ ~resp.answer.threw
     /\ resp.answer.channel # 0
     /\ Len(Programs(scheduleCache.channels[resp.answer.channel])) = 0) =>
        LET day == clock \div MS_PER_DAY
            filled == fillProgramGaps(<<>>, clock)
        IN  /\ Len(filled) = 1
            /\ filled[1].is_placeholder
            /\ filled[1].start_dt = (day - 1) * MS_PER_DAY
            /\ filled[1].stop_dt = (day + 8) * MS_PER_DAY - 1
            /\ resp.answer.event = filled

\* a channel with no programs field has been resolved
C14_Witness ==
    /\ resp.kind = "stream"
    /\ ~resp.answer.threw
    /\ resp.answer.channel # 0
    /\ "programs" \notin DOMAIN scheduleCache.channels[resp.answer.channel]
    /\ resp.answer.event # <<>>
    /\ resp.answer.event[1].program_name = "No Events Scheduled"

\* C15: channel lookup gives name matches precedence: if a channel has the
\* URL-decoded identifier as channel_name, the first such channel is returned
\* even when an earlier channel has the identifier as id; a channel is matched
\* by id only when none matches by name; when nothing matches the result is
\* {channel: null, event: null}.
C15_NameMatchFirst ==
    (resp.kind = "stream" /\ ~resp.answer.threw) =>
        LET channels == scheduleCache.channels
            channelId == decodeURIComponent(resp.raw)
            byName == {i \in 1..Len(channels) :
                         channels[i].channel_name = decodeURIComponent(channelId)}
            byId == {i \in 1..Len(channels) : channels[i].id = channelId}
        IN  IF byName # {}
            THEN /\ resp.answer.channel \in byName
                 /\ \A i \in byName : resp.answer.channel <= i
            ELSE IF byId # {}
            THEN /\ resp.answer.channel \in byId
                 /\ \A i \in byId : resp.answer.channel <= i
            ELSE resp.answer.channel = 0 /\ resp.answer.event = <<>>

\* C16: GET /stream/{id} answers 404 for an unknown channel, 404 for a known
\* channel with no active event, and 503 when the active event has no
\* stream_url and no program can stand in for it; in all three no upstream
\* request is opened and the response is ended.
C16_ResolutionFailures ==
    (resp.kind = "stream" /\ ~resp.answer.threw) =>
        LET a == resp.answer
            quiet == a.ended /\ ~a.streamTS
            programs == IF a.channel = 0 THEN <<>>
                        ELSE Programs(scheduleCache.channels[a.channel])
            standIns == {i \in 1..Len(programs) :
                           programs[i].stream_url # "" /\ ~programs[i].is_placeholder}
        IN  /\ a.channel = 0 => (a.status = 404 /\ quiet)
            /\ (a.channel # 0 /\ a.event = <<>>) => (a.status = 404 /\ quiet)
            /\ (/\ a.channel # 0
                /\ a.event # <<>>
                /\ a.event[1].stream_url = ""
                /\ standIns = {}) => (a.status = 503 /\ quiet)

\* a GET on a channel whose programs have no stream_url was answered 503
C16_Witness ==
    /\ resp.kind = "stream"
    /\ resp.method = "GET"
    /\ ~resp.answer.threw
    /\ resp.answer.channel # 0
    /\ Len(Programs(scheduleCache.channels[resp.answer.channel])) = MaxPrograms
    /\ resp.answer.event # <<>>
    /\ resp.answer.status = 503
    /\ resp.answer.ended
    /\ ~resp.answer.streamTS

\* C17: for a channel with zero programs GET /stream/{channel}.ts answers 503
\* and GET /epg.xml still lists the channel, with a channel element and exactly
\* one programme, a placeholder that spans the visibility window.
C17_EmptyChannelListed ==
    \A c \in 1..Len(scheduleCache.channels) :
        Len(Programs(scheduleCache.channels[c])) = 0 =>
            LET name == scheduleCache.channels[c].channel_name
                day == clock \div MS_PER_DAY
            IN  /\ (/\ resp.kind = "stream"
                    /\ ~resp.answer.threw
                    /\ resp.answer.channel = c) => resp.answer.status = 503
                /\ resp.kind = "epg" =>
                      /\ \E i \in 1..Len(resp.channels) : resp.channels[i] = name
                      /\ Cardinality({i \in 1..Len(resp.programmes) :
                                        resp.programmes[i].channel = name}) = 1
                      /\ \A i \in 1..Len(resp.programmes) :
                            resp.programmes[i].channel = name =>
                               /\ resp.programmes[i].start = (day - 1) * MS_PER_DAY
                               /\ resp.programmes[i].stop = (day + 8) * MS_PER_DAY - 1

\* C17 (amended): for a channel with zero programs GET /stream/{channel}.ts
\* answers 503, and GET /epg.xml has no channel element for it and exactly one
\* programme for it: the hidden event, which starts at 00:00 UTC of the
\* previous day and lasts 30 minutes.
C17_EmptyChannelHidden ==
    \A c \in 1..Len(scheduleCache.channels) :
        Len(Programs(scheduleCache.channels[c])) = 0 =>
            LET name == scheduleCache.channels[c].channel_name
                day == clock \div MS_PER_DAY
            IN  /\ (/\ resp.kind = "stream"
                    /\ ~resp.answer.threw
                    /\ resp.answer.channel = c) => resp.answer.status = 503
                /\ resp.kind = "epg" =>
                      /\ \A i \in 1..Len(resp.channels) : resp.channels[i] # name
                      /\ Cardinality({i \in 1..Len(resp.programmes) :
                                        resp.programmes[i].channel = name}) = 1
                      /\ \A i \in 1..Len(resp.programmes) :
                            resp.programmes[i].channel = name =>
                               /\ resp.programmes[i].title = "Hidden Event"
                               /\ resp.programmes[i].start = (day - 1) * MS_PER_DAY
                               /\ resp.programmes[i].stop =
                                     (day - 1) * MS_PER_DAY + MS_PER_HOUR \div 2

\* /epg.xml has been served from a schedule whose channel has no programs
C17_Witness ==
    /\ resp.kind = "epg"
    /\ Len(scheduleCache.channels) = 1
    /\ Len(Programs(scheduleCache.channels[1])) = 0
    /\ Len(resp.programmes) = 1
    /\ resp.channels = <<>>

---------------------------------------------------------------------------
(* Claims on the schedule store (SpecStore) *)

\* C18: once a document is loaded, a loadSchedule call made less than 5000 ms
\* after the last successful load (the instant the store has stamped it with)
\* returns the cached document and does not read the file; a call made
\* 5000 ms or more after it attempts a read.
C18_FreshCacheServed ==
    [][/\ (scheduleCache.type = "object" /\ clock - lastScheduleLoad < 5000)
             => reads' = reads
       /\ (ret'.n = ret.n + 1 /\ ret'.fromCache)
             => /\ scheduleCache.type = "object"
                /\ clock - lastScheduleLoad < 5000
                /\ ret'.value = scheduleCache
                /\ reads' = reads
       /\ Len(loads') > Len(loads)
             => /\ reads' = reads + 1
                /\ ~(scheduleCache.type = "object" /\ clock - lastScheduleLoad < 5000)]_vars

\* a call made 4999 ms after the load was served from the cache, and a load
\* had been read again after an expiry before
C18_Witness ==
    /\ ret.fromCache
    /\ ret.at = lastScheduleLoad + 4999
    /\ ret.value = scheduleCache
    /\ reads >= 2

\* C19: when reading or parsing the file fails, loadSchedule does not throw:
\* it returns the previous cache if there is one and {} otherwise, and leaves
\* cache and timestamp as they are; and for every content of the file the
\* value it returns is a document object its callers can iterate.
C19_FailureAbsorbed ==
    [][ret'.n = ret.n + 1 =>
          /\ (~ret'.fromCache /\ file.kind # "json") =>
                /\ ret'.value = IF scheduleCache.type = "null"
                                THEN [type |-> "object", channels |-> <<>>]
                                ELSE scheduleCache
                /\ scheduleCache' = scheduleCache
                /\ lastScheduleLoad' = lastScheduleLoad
          /\ ret'.value.type = "object"]_vars

---------------------------------------------------------------------------
(* Claims on the response status of a session (SpecProxy) *)

\* C20: along every path of a relay session (redirect chains, rejection,
\* connection error, timeout, error in mid-stream, end of the upstream) the
\* response headers are written at most once, and once a status has been sent
\* no handler sends another one.
C20_HeadersWrittenOnce ==
    /\ Len(headLog) <= 1
    /\ \A i \in 1..Len(headLog) : headLog[i] = statusCode

\* the request was destroyed by the timeout handler, which sent 504, and its
\* error handler has run after that
C20_Witness ==
    /\ cur >= 1
    /\ conns[cur] = "failed"
    /\ headLog = <<504>>
    /\ resEnded

\* C21: when the upstream request times out before any response header has
\* been sent to the client, the client receives 504 with 'Gateway timeout';
\* the error handler of the request, which the destroy of the timeout handler
\* triggers, changes neither the status nor the body.  A client that has
\* closed the connection receives no body.
C21_TimeoutGives504 ==
    [][/\ (cur >= 1 /\ conns[cur] = "pending" /\ conns'[cur] = "aborting" /\ ~headersSent)
            => /\ statusCode' = 504
               /\ headLog' = <<504>>
               /\ (~clientClosed => clientBody' = TextGatewayTimeout)
               /\ resEnded'
       /\ (cur >= 1 /\ conns[cur] = "aborting" /\ conns'[cur] = "failed")
            => /\ statusCode' = statusCode
               /\ statusCode' # 502
               /\ headLog' = headLog
               /\ clientBody' = clientBody]_vars

\* the request timed out before any header was sent, the error handler of the
\* destroyed request has run, and the client has 504 'Gateway timeout'
C21_Witness ==
    /\ cur >= 1
    /\ conns[cur] = "failed"
    /\ statusCode = 504
    /\ clientBody = TextGatewayTimeout
    /\ packets = <<>>

---------------------------------------------------------------------------
(* Claims on the order and the completeness of the relay (SpecRealign) *)

\* the packets pkts[i..] are slices of the bytes received, each one starting
\* at or after the offset where the one before it ended, and the last one
\* ending at or before the offset limit
RECURSIVE InOrderFrom(_, _, _, _)
InOrderFrom(pkts, i, from, limit) ==
    IF i > Len(pkts) THEN from <= limit
    ELSE \E o \in from..(limit - TS_PACKET_SIZE) :
            /\ SubSeq(body, o + 1, o + TS_PACKET_SIZE) = pkts[i]
            /\ InOrderFrom(pkts, i + 1, o + TS_PACKET_SIZE, limit)

\* C22: within one relay session the packets are written to the client in the
\* order their bytes were received from the upstream: what the client has
\* after the initial packets is the packets in the order of their extraction,
\* each packet is a run of received bytes that lies after the run of the
\* packet before it, and the bytes still buffered are the last ones received,
\* across chunk boundaries, resynchronisations and backpressure.
C22_UpstreamOrderKept ==
    /\ clientBody = initialPackets \o Flatten(packets)
    /\ Len(buffer) <= pos
    /\ buffer = SubSeq(body, pos - Len(buffer) + 1, pos)
    /\ InOrderFrom(packets, 1, 0, pos - Len(buffer))

\* two different packets were written after a resynchronisation, the second
\* one while the client's socket was applying backpressure
C22_Witness ==
    /\ Len(packets) = 2
    /\ packets[1] # packets[2]
    /\ body[1] # SYNC_BYTE
    /\ needDrain
    /\ pos = Len(body)

C26_LessThanAPacketBuffered ==
    Len(buffer) < TS_PACKET_SIZE

\* the upstream has ended after two packets and an unfinished one, which is
\* all that the buffer holds
C26_Witness ==
    /\ conns[1] = "ended"
    /\ Len(packets) = 2
    /\ buffer = <<SYNC_BYTE, 9>>

---------------------------------------------------------------------------
(* Claims on the redirects and the end of a session *)

\* C25: up to 5 redirect hops are followed: the session fails with 502 'Too
\* many redirects' only when the upstream has answered with more than 5
\* redirects in a row, so that a chain of at most 5 redirects ending in 200 is
\* relayed.
C25_FiveRedirectsFollowed ==
    (resEnded /\ clientBody = TextTooManyRedirects)
        => Cardinality({i \in DOMAIN conns : conns[i] = "redirected"}) > MAX_REDIRECTS

---------------------------------------------------------------------------
(* Claims on the fallback, the stored order and the cached document         *)
(* (SpecResolve)                                                            *)

\* C27: when the /stream handler falls back, the program it takes the source
\* URL from has a stop_dt: a program without stop_dt is never selected,
\* whatever its position, and even if it is the only one with a stream_url.
C27_FallbackHasStop ==
    (/\ resp.kind = "stream"
     /\ ~resp.answer.threw
     /\ resp.answer.event # <<>>
     /\ (resp.answer.event[1].is_placeholder \/ resp.answer.event[1].stream_url = "")
     /\ resp.answer.source # "") =>
        LET programs == Programs(scheduleCache.channels[resp.answer.channel])
        IN  \E i \in 1..Len(programs) :
               /\ programs[i].stream_url = resp.answer.source
               /\ ~programs[i].is_placeholder
               /\ programs[i].stop_dt # NaN

\* the programs have valid intervals that do not overlap pairwise, and
\* distinct stop times
DisjointIntervals(programs) ==
    /\ \A i \in 1..Len(programs) :
          /\ programs[i].start_dt # NaN
          /\ programs[i].stop_dt # NaN
          /\ programs[i].start_dt < programs[i].stop_dt
    /\ \A i, j \in 1..Len(programs) :
          i # j => /\ \/ programs[i].stop_dt <= programs[j].start_dt
                      \/ programs[j].stop_dt <= programs[i].start_dt
                   /\ programs[i].stop_dt # programs[j].stop_dt

\* C28: resolution does not depend on the stored order: for a channel whose
\* programs have valid, pairwise non-overlapping intervals and distinct stop
\* times, every permutation of the programs list gives the event and the
\* source URL that the /stream request has been answered with.
C28_StoredOrderIrrelevant ==
    (/\ resp.kind = "stream"
     /\ ~resp.answer.threw
     /\ resp.answer.channel # 0
     /\ DisjointIntervals(Programs(scheduleCache.channels[resp.answer.channel]))) =>
        LET c == resp.answer.channel
            channels == scheduleCache.channels
        IN  \A perm \in Perms(Programs(channels[c])) :
               LET permuted == [channels EXCEPT ![c] =
                                   [channels[c] EXCEPT !.programs = perm]]
               IN  \A sorted \in Sorts(perm) :
                      LET answer == streamAnswer(permuted,
                                        findChannelAndEvent(permuted,
                                            decodeURIComponent(resp.raw), clock, sorted),
                                        resp.method)
                      IN  /\ answer.channel = c
                          /\ answer.event = resp.answer.event
                          /\ answer.source = resp.answer.source
                          /\ answer.status = resp.answer.status

\* a request was answered from a channel whose three programs are not stored
\* in the order of their starts: the event is the program on air, which has no
\* stream_url, and another program gives the source
C28_Witness ==
    /\ resp.kind = "stream"
    /\ ~resp.answer.threw
    /\ resp.answer.channel # 0
    /\ LET programs == Programs(scheduleCache.channels[resp.answer.channel])
       IN  /\ Len(programs) = 3
           /\ DisjointIntervals(programs)
           /\ programs[2].start_dt < programs[1].start_dt
    /\ resp.answer.event # <<>>
    /\ ~resp.answer.event[1].is_placeholder
    /\ resp.answer.event[1].stream_url = ""
    /\ resp.answer.source # ""

\* C23: event resolution, gap filling, fallback selection and the guide
\* serializers leave the cached document unchanged: after any sequence of
\* /stream, /playlist.m3u, /epg.xml and /health requests the cached document,
\* the stored order of each channel's programs included, is the one that
\* loadSchedule has loaded and returned, and no request reads the file again.
C23_CachedDocumentUnchanged ==
    /\ scheduleCache = ret.value
    /\ scheduleCache = file.value
    /\ reads = 1

\* a /stream request has been resolved on a channel whose programs are stored
\* latest first, so that the sort of fillProgramGaps had to reorder them
C23_Witness ==
    /\ resp.kind = "stream"
    /\ ~resp.answer.threw
    /\ resp.answer.channel # 0
    /\ resp.answer.event # <<>>
    /\ LET programs == Programs(scheduleCache.channels[resp.answer.channel])
       IN  /\ Len(programs) >= 2
           /\ DateLt(programs[2].start_dt, programs[1].start_dt)

---------------------------------------------------------------------------
(* Claims on the body and the upstream connections of a session (Spec) *)

\* C29: in every state of a /stream session the number of body bytes written
\* to the client is a multiple of 188, on every path, upstream rejection and
\* connection error included.
C29_BodyIsWholePackets ==
    Len(clientBody) % TS_PACKET_SIZE = 0

\* C30: no upstream connection outlives its session: once the client response
\* has been ended, every upstream request of the session has failed, and every
\* upstream response has ended or been destroyed; none is still connecting,
\* streaming, or left open unread after a rejection.
C30_NoUpstreamOutlivesSession ==
    resEnded => \A i \in DOMAIN conns : conns[i] \notin {"pending", "streaming", "rejected"}

---------------------------------------------------------------------------
(* Claims on the playlist, the active program, the store under concurrent   *)
(* calls, and the end of a session                                          *)

\* C34: playlist round trip: for every channel that /playlist.m3u lists, a
\* /stream request on the path the playlist gives for it (encodeURIComponent
\* of channel_name) does not raise, does not answer 'Channel not found', and
\* resolves to a channel of that name, for every channel name and document.
C34_PlaylistRoundTrip ==
    resp.kind = "stream" =>
        \A i \in 1..Len(playlistEntries(scheduleCache.channels, 1)) :
           LET entry == playlistEntries(scheduleCache.channels, 1)[i]
           IN  resp.raw = entry.path =>
                  /\ ~resp.answer.threw
                  /\ resp.answer.channel # 0
                  /\ scheduleCache.channels[resp.answer.channel].channel_name = entry.tvgId

\* the program holds start_dt <= now < stop_dt
OnAir(program, now) ==
    DateLe(program.start_dt, now) /\ DateLt(now, program.stop_dt)

\* every program has both times
AllTimed(programs) ==
    \A i \in 1..Len(programs) :
        programs[i].start_dt # NaN /\ programs[i].stop_dt # NaN

\* C33: for a channel whose programs all have valid times, in any stored order
\* and overlapping or not, if a real program is on air at now then
\* findChannelAndEvent returns a real program that is on air, never a
\* placeholder: in the sequence fillProgramGaps builds, no placeholder whose
\* interval contains now stands before a real program that is on air.
C33_ActiveProgramNotShadowed ==
    (/\ resp.kind = "stream"
     /\ ~resp.answer.threw
     /\ resp.answer.channel # 0) =>
        LET programs == Programs(scheduleCache.channels[resp.answer.channel])
        IN  (/\ AllTimed(programs)
             /\ \E i \in 1..Len(programs) :
                   ~programs[i].is_placeholder /\ OnAir(programs[i], clock)) =>
                /\ resp.answer.event # <<>>
                /\ ~resp.answer.event[1].is_placeholder
                /\ OnAir(resp.answer.event[1], clock)
                /\ \A sorted \in Sorts(programs) :
                      LET filled == fillProgramGaps(sorted, clock)
                      IN  \A i, j \in 1..Len(filled) :
                             (i < j /\ ~filled[j].is_placeholder /\ OnAir(filled[j], clock))
                                => ~(filled[i].is_placeholder /\ OnAir(filled[i], clock))

\* a request was resolved to a real program on a channel where the program on
\* air overlaps another program and is not the first one stored
C33_Witness ==
    /\ resp.kind = "stream"
    /\ ~resp.answer.threw
    /\ resp.answer.channel # 0
    /\ LET programs == Programs(scheduleCache.channels[resp.answer.channel])
       IN  /\ Len(programs) = 2
           /\ AllTimed(programs)
           /\ ~OnAir(programs[1], clock)
           /\ OnAir(programs[2], clock)
           /\ programs[1].start_dt < programs[2].stop_dt
           /\ programs[2].start_dt < programs[1].stop_dt
    /\ resp.answer.event # <<>>
    /\ ~resp.answer.event[1].is_placeholder

\* C32: under any interleaving of concurrent loadSchedule calls that have all
\* found the cache expired, the last-load timestamp never decreases, and a
\* refresh that completes never replaces the cached document by file content
\* that was read before the content already cached.
C32_RefreshesInOrder ==
    [][/\ lastScheduleLoad' >= lastScheduleLoad
       /\ io'.cached >= io.cached]_vars

\* C31: every /stream session that has started an upstream fetch eventually
\* ends the client response, under fair scheduling of the events, whatever the
\* upstream does (never answers, redirects, errors, ends) and whenever the
\* client disconnects: the response is ended, or closed by the client.
C31_SessionEnds ==
    started ~> (resEnded \/ clientClosed)

=============================================================================
